---- MODULE Spec2Model ----
(***************************************************************************)
(* python-proofmarshal: serialization contexts, immutable proof values     *)
(* with a memoized keyed hash, and the merbinner tree (tree object and     *)
(* standalone hash algorithm).                                             *)
(*                                                                         *)
(* Representation.                                                         *)
(*  - A Python int is a little-endian sequence of bits without leading     *)
(*    zeros (0 is <<>>), so that values such as 2^32 are exact.            *)
(*  - A Python bytes value is a sequence of elements; an element is        *)
(*    either one byte <<b>> or a 32-byte HMAC-SHA256 digest                *)
(*    <<"H", key, message>>.  The digest is a term over its key and        *)
(*    message: two digests are equal iff key and message are equal.        *)
(*  - An exception is the field err of the record an operation returns;    *)
(*    once err is set the remaining steps of the call are skipped.         *)
(***************************************************************************)
EXTENDS Integers, Sequences, FiniteSets, TLC

VARIABLES
    obj,        \* the proof value under consideration
    wire,       \* result of obj.serialize()
    decoded,    \* result of cls.deserialize(wire)
    rewire,     \* result of decoded.serialize()
    digest,     \* result of obj.calc_hash() through a fresh hashing context
    standalone, \* result of calc_(summed_)merbinner_hash over the tree's hashes
    cached,     \* obj._cached_hash (NoCache when the attribute is absent)
    pc,         \* per thread: position inside the hash property
    local,      \* per thread: value computed by calc_hash, not yet stored
    ret,        \* per thread: outcomes of its finished hash accesses
    calcCount,  \* number of calc_hash executions started on obj
    attrErr,    \* outcomes of the attribute writes and deletes attempted
    writer,     \* a serialization context its caller writes fields to
    call,       \* the last write call made on writer and its outcome
    standaloneItems, \* the items passed to calc_summed_merbinner_hash
    maxDepth    \* the deepest _depth that call reached

vars == <<obj, wire, decoded, rewire, digest, standalone,
          cached, pc, local, ret, calcCount, attrErr,
          writer, call, standaloneItems, maxDepth>>

-----------------------------------------------------------------------------
(* Bounds of the model *)

MaxVaruint == 130
MaxEntries == 3
MaxBufLen == 2
NumThreads == 2
MaxAccesses == 2

MaxAttempts == 2

-----------------------------------------------------------------------------
(* Python ints and bytes *)

Min(a, b) == IF a < b THEN a ELSE b

RECURSIVE Big(_)
Big(n) == IF n = 0 THEN <<>> ELSE <<n % 2>> \o Big(n \div 2)

RECURSIVE IntOf(_)
IntOf(bits) ==
    IF Len(bits) = 0 THEN 0 ELSE bits[1] + 2 * IntOf(Tail(bits))

RECURSIVE Normalize(_)
Normalize(bits) ==
    IF Len(bits) = 0 THEN bits
    ELSE IF bits[Len(bits)] = 0 THEN Normalize(SubSeq(bits, 1, Len(bits) - 1))
    ELSE bits

bit_length(value) == Len(value)

B(b) == <<b>>

x(bs) == [i \in 1..Len(bs) |-> B(bs[i])]

IsDigest(e) == Len(e) = 3

DIGEST_SIZE == 32

ByteLen(v) ==
    Len(v) + (DIGEST_SIZE - 1) * Cardinality({n \in 1..Len(v) : IsDigest(v[n])})

None == "None"

NoLength == 0 - 1

RECURSIVE StreamSum(_)
StreamSum(msg) ==
    IF Len(msg) = 0 THEN 0
    ELSE LET e == msg[1]
             here == IF IsDigest(e) THEN 1 + StreamSum(e[3]) ELSE e[1]
         IN (here + 3 * StreamSum(Tail(msg))) % 256

DigestByte(d, i) == ((2 * i + 1) * (StreamSum(d[3]) + 1)) % 256

IndexError == 0 - 1

ByteAt(v, i) ==
    IF i >= ByteLen(v) THEN IndexError
    ELSE IF IsDigest(v[1]) THEN DigestByte(v[1], i)
    ELSE v[i + 1][1]

HMAC_unkeyed(key, msg) == [err |-> "", out |-> << <<"H", key, msg>> >>]

HMAC(key, msg) ==
    IF key = None
    THEN [err |-> "TypeError", out |-> <<>>]
    ELSE [err |-> "", out |-> << <<"H", key, msg>> >>]

-----------------------------------------------------------------------------
(* Writing contexts *)

BytesSerializationContext == [kind |-> "bytes", err |-> "", fd |-> <<>>]

HashSerializationContext == [kind |-> "hash", err |-> "", fd |-> <<>>]

fd_write(ctx, data) ==
    IF ctx.err # "" THEN ctx ELSE [ctx EXCEPT !.fd = @ \o data]

raise(ctx, e) == IF ctx.err # "" THEN ctx ELSE [ctx EXCEPT !.err = e]

And7F(value) == IntOf(SubSeq(value, 1, Min(7, Len(value))))

Shr8(value) == SubSeq(value, 9, Len(value))

Shr7(value) == SubSeq(value, 8, Len(value))

RECURSIVE varuint_loop(_)
varuint_loop(value) ==
    LET b == And7F(value) IN
    IF Len(value) > 7
    THEN <<B(b + 128)>> \o varuint_loop(Shr7(value))
    ELSE <<B(b)>>

varuint_bytes(value) ==
    IF Len(value) = 0 THEN <<B(0)>> ELSE varuint_loop(value)

write_varuint(ctx, value) == fd_write(ctx, varuint_bytes(value))

write_bytes(ctx, value, expected_length) ==
    LET c1 == IF expected_length = NoLength
              THEN write_varuint(ctx, Big(ByteLen(value)))
              ELSE IF ByteLen(value) = expected_length
                   THEN ctx
                   ELSE raise(ctx, "AssertionError")
    IN fd_write(c1, value)

-----------------------------------------------------------------------------
(* Proof value classes.  A value is [cls, i, buf, items]; a class reads    *)
(* only its own fields.  boxed_varuint, boxed_bytes and boxed_objs are the *)
(* classes of test_core.py, our_boxed_bytes is test_bytes' subclass with a *)
(* fixed EXPECTED_LENGTH, the two BytesBytes trees are those of            *)
(* test_merbinnertree.py, MerbinnerTree is the base class as written, and  *)
(* ProofMerbinnerTree is a subclass that keeps the base class's            *)
(* key_gethash/value_gethash (key.hash, value.hash) over boxed_bytes keys  *)
(* and values written with write_obj.  Nested values (the fields of        *)
(* boxed_objs, the keys and values of ProofMerbinnerTree) are always of    *)
(* the boxed classes, so write_obj and read_obj dispatch to those.         *)

FixedLen == 2

KEY_LENGTH == 4

VALUE_LENGTH == 4

SUMMED_VALUE_LENGTH == 6

SUM_SIZE == 2

SUM_IDENTITY == 0

TreeClasses == {"BytesBytesMerbinnerTree", "SummedBytesBytesMerbinnerTree",
                "ProofMerbinnerTree", "MerbinnerTree"}

BytesKeyed == {"BytesBytesMerbinnerTree", "SummedBytesBytesMerbinnerTree"}

HASH_HMAC_KEY(cls) ==
    CASE cls = "boxed_varuint" -> "dd2617248e435da6db7c119c17cc19cd"
      [] cls = "boxed_bytes" -> "f690a4d282810e868a0d7d59578a6585"
      [] cls = "our_boxed_bytes" -> "f690a4d282810e868a0d7d59578a6585"
      [] cls = "boxed_objs" -> "296d566c10ebb4b92e8a7f6e909eb191"
      [] cls = "BytesBytesMerbinnerTree" -> "92e8898fcfa8b86b60b32236d6990da0"
      [] cls = "SummedBytesBytesMerbinnerTree" -> "e630f7a3a784d521533772d43c8874c6"
      [] cls = "ProofMerbinnerTree" -> "proofmerbinnertree"
      [] OTHER -> None

EXPECTED_LENGTH(cls) == IF cls = "our_boxed_bytes" THEN FixedLen ELSE NoLength

Value(cls, i, buf, items) == [cls |-> cls, i |-> i, buf |-> buf, items |-> items]

boxed_varuint(i) == Value("boxed_varuint", i, <<>>, <<>>)

boxed_bytes(buf) == Value("boxed_bytes", <<>>, buf, <<>>)

boxed_objs(buf, i) == Value("boxed_objs", i, buf, <<>>)

sum_pack(sum) ==
    IF sum >= 0 /\ sum < 65536
    THEN [err |-> "", out |-> x(<<sum \div 256, sum % 256>>)]
    ELSE [err |-> "struct.error", out |-> <<>>]

value_getsum(cls, value) ==
    IF cls = "SummedBytesBytesMerbinnerTree"
    THEN ByteAt(value, ByteLen(value) - 2) * 256 + ByteAt(value, ByteLen(value) - 1)
    ELSE 0

sum_func(a, b) == a + b

write_sum(ctx, p) ==
    IF p.err # "" THEN raise(ctx, p.err) ELSE write_bytes(ctx, p.out, SUM_SIZE)

sum_serialize(cls, ctx, sum) ==
    IF cls = "SummedBytesBytesMerbinnerTree" THEN write_sum(ctx, sum_pack(sum)) ELSE ctx

boxed_ctx_serialize(self, ctx) ==
    IF self.cls = "boxed_varuint"
    THEN write_varuint(ctx, self.i)
    ELSE write_bytes(ctx, self.buf, EXPECTED_LENGTH(self.cls))

Result(ctx) == [err |-> ctx.err, out |-> IF ctx.err # "" THEN <<>> ELSE ctx.fd]

hmac_digest(key, ctx) ==
    IF ctx.err # "" THEN [err |-> ctx.err, out |-> <<>>] ELSE HMAC(key, ctx.fd)

boxed_calc_hash(self) ==
    hmac_digest(HASH_HMAC_KEY(self.cls),
                boxed_ctx_serialize(self, HashSerializationContext))

write_hash(ctx, h) ==
    IF h.err # "" THEN raise(ctx, h.err)
    ELSE IF ByteLen(h.out) # DIGEST_SIZE THEN raise(ctx, "AssertionError")
    ELSE write_bytes(ctx, h.out, DIGEST_SIZE)

write_obj_inline(ctx, value) ==
    IF ctx.err # "" THEN ctx ELSE boxed_ctx_serialize(value, ctx)

write_obj(ctx, value) ==
    IF ctx.err # "" THEN ctx
    ELSE IF ctx.kind = "hash" THEN write_hash(ctx, boxed_calc_hash(value))
    ELSE boxed_ctx_serialize(value, ctx)

key_serialize(cls, ctx, key) ==
    CASE cls \in BytesKeyed -> write_bytes(ctx, key, KEY_LENGTH)
      [] cls = "ProofMerbinnerTree" -> write_obj(ctx, boxed_bytes(key))
      [] OTHER -> raise(ctx, "TypeError")

value_serialize(cls, ctx, value) ==
    CASE cls = "BytesBytesMerbinnerTree" -> write_bytes(ctx, value, VALUE_LENGTH)
      [] cls = "SummedBytesBytesMerbinnerTree" ->
             write_bytes(ctx, value, SUMMED_VALUE_LENGTH)
      [] cls = "ProofMerbinnerTree" -> write_obj(ctx, boxed_bytes(value))
      [] OTHER -> raise(ctx, "TypeError")

key_gethash(cls, key) ==
    IF cls \in BytesKeyed
    THEN [err |-> "", out |-> key]
    ELSE IF cls = "ProofMerbinnerTree" THEN boxed_calc_hash(boxed_bytes(key))
    ELSE [err |-> "AttributeError", out |-> <<>>]

value_gethash(cls, value) ==
    IF cls \in BytesKeyed
    THEN [err |-> "", out |-> value]
    ELSE IF cls = "ProofMerbinnerTree" THEN boxed_calc_hash(boxed_bytes(value))
    ELSE [err |-> "AttributeError", out |-> <<>>]

BitOf(byte, depth) == (byte \div (2 ^ (7 - (depth % 8)))) % 2

subscript(key, index) ==
    IF index >= ByteLen(key) THEN [err |-> "IndexError", out |-> 0]
    ELSE [err |-> "", out |-> ByteAt(key, index)]

key_subscript(cls, key, index) ==
    IF cls = "ProofMerbinnerTree" THEN [err |-> "TypeError", out |-> 0]
    ELSE subscript(key, index)

side_of(keyhash, byte, depth) ==
    IF keyhash.err # "" THEN [err |-> keyhash.err, out |-> 0]
    ELSE IF byte.err # "" THEN byte
    ELSE [err |-> "", out |-> BitOf(byte.out, depth)]

tree_side(cls, key, depth) ==
    side_of(key_gethash(cls, key), key_subscript(cls, key, depth \div 8), depth)

ErrOf(sides) ==
    IF \A n \in 1..Len(sides) : sides[n].err = "" THEN ""
    ELSE sides[CHOOSE n \in 1..Len(sides) :
                  /\ sides[n].err # ""
                  /\ \A m \in 1..(n - 1) : sides[m].err = ""].err

tree_sides(cls, items, depth) ==
    [n \in 1..Len(items) |-> tree_side(cls, items[n][1], depth)]

Pick(items, sides, bit) ==
    LET RECURSIVE pick(_)
        pick(n) == IF n > Len(items) THEN <<>>
                   ELSE (IF sides[n].out = bit THEN <<items[n]>> ELSE <<>>)
                            \o pick(n + 1)
    IN pick(1)

left_items(cls, items, depth) == Pick(items, tree_sides(cls, items, depth), 1)

right_items(cls, items, depth) == Pick(items, tree_sides(cls, items, depth), 0)

RECURSIVE recurse(_, _, _, _)

Node(ctx, sum) == [ctx |-> ctx, sum |-> IF ctx.err # "" THEN 0 ELSE sum]

hash_side(cls, ctx, r) ==
    IF r.ctx.err # "" THEN Node(raise(ctx, r.ctx.err), 0)
    ELSE
    Node(sum_serialize(cls,
                       write_hash(ctx, hmac_digest(HASH_HMAC_KEY(cls), r.ctx)),
                       r.sum),
         r.sum)

do_recurse(cls, ctx, items, depth) ==
    IF ctx.err # "" THEN Node(ctx, 0)
    ELSE IF ctx.kind = "hash"
    THEN hash_side(cls, ctx, recurse(cls, HashSerializationContext, items, depth + 1))
    ELSE recurse(cls, ctx, items, depth + 1)

inner_done(l, r) ==
    IF r.ctx.err # "" THEN r ELSE Node(r.ctx, sum_func(l.sum, r.sum))

inner_right(cls, l, items, depth) ==
    IF l.ctx.err # "" THEN l
    ELSE inner_done(l, do_recurse(cls, l.ctx, right_items(cls, items, depth), depth))

inner(cls, ctx, items, depth, e) ==
    IF e # "" THEN Node(raise(ctx, e), 0)
    ELSE inner_right(cls, do_recurse(cls, ctx, left_items(cls, items, depth), depth),
                     items, depth)

recurse(cls, ctx, items, depth) ==
    IF ctx.err # "" THEN Node(ctx, 0)
    ELSE IF Len(items) = 0
    THEN Node(write_varuint(ctx, Big(0)), SUM_IDENTITY)
    ELSE IF Len(items) = 1
    THEN Node(value_serialize(cls,
                  key_serialize(cls, write_varuint(ctx, Big(1)), items[1][1]),
                  items[1][2]),
              items[1][3])
    ELSE inner(cls, write_varuint(ctx, Big(2)), items, depth,
               ErrOf(tree_sides(cls, items, depth)))

tree_items(self) ==
    [n \in 1..Len(self.items) |->
        <<self.items[n][1], self.items[n][2],
          value_getsum(self.cls, self.items[n][2])>>]

BoxedClasses == {"boxed_varuint", "boxed_bytes", "our_boxed_bytes"}

ctx_serialize(self, ctx) ==
    CASE self.cls \in BoxedClasses -> boxed_ctx_serialize(self, ctx)
      [] self.cls = "boxed_objs" ->
             write_obj(write_obj(ctx, boxed_bytes(self.buf)), boxed_varuint(self.i))
      [] self.cls \in TreeClasses -> recurse(self.cls, ctx, tree_items(self), 0).ctx
      [] OTHER -> raise(ctx, "NotImplementedError")

serialize(self) == Result(ctx_serialize(self, BytesSerializationContext))

calc_hash(self) ==
    hmac_digest(HASH_HMAC_KEY(self.cls), ctx_serialize(self, HashSerializationContext))

-----------------------------------------------------------------------------
(* Standalone hash algorithm.  hash_func is HMAC-SHA256 under hkey;        *)
(* summed selects sum_serialize_func: struct '>H' packing when TRUE, the   *)
(* empty string (calc_merbinner_hash) when FALSE.                          *)

sum_serialize_func(summed, s) ==
    IF summed THEN sum_pack(s) ELSE [err |-> "", out |-> <<>>]

standalone_side_next(key, depth) ==
    side_of([err |-> "", out |-> key], subscript(key, (depth \div 8) + 1), depth)

standalone_side(key, depth) ==
    side_of([err |-> "", out |-> key], subscript(key, depth \div 8), depth)

standalone_sides(items, depth) ==
    [n \in 1..Len(items) |-> standalone_side(items[n][1], depth)]

standalone_left_first(items, depth) ==
    Pick(items, standalone_sides(items, depth),
         standalone_sides(items, depth)[1].out)

standalone_left(items, depth) == Pick(items, standalone_sides(items, depth), 1)

standalone_right(items, depth) == Pick(items, standalone_sides(items, depth), 0)

Failed(e) == [err |-> e, hash |-> <<>>, sum |-> 0]

Hashed(h, s) ==
    IF h.err # "" THEN Failed(h.err) ELSE [err |-> "", hash |-> h.out, sum |-> s]

leaf_hash(hkey, k, v, s, ss) ==
    IF ss.err # "" THEN Failed(ss.err)
    ELSE Hashed(HMAC(hkey, x(<<1>>) \o k \o v \o ss.out), s)

inner_hash(hkey, l, ls, r, rs) ==
    IF l.err # "" THEN l
    ELSE IF r.err # "" THEN r
    ELSE IF ls.err # "" THEN Failed(ls.err)
    ELSE IF rs.err # "" THEN Failed(rs.err)
    ELSE Hashed(HMAC(hkey, x(<<2>>) \o l.hash \o ls.out \o r.hash \o rs.out),
                sum_func(l.sum, r.sum))

inner_sums(hkey, summed, l, r) ==
    inner_hash(hkey, l, sum_serialize_func(summed, l.sum),
                     r, sum_serialize_func(summed, r.sum))

RECURSIVE calc_summed_merbinner_hash(_, _, _, _)

standalone_inner(items, hkey, summed, depth, e) ==
    IF e # "" THEN Failed(e)
    ELSE inner_sums(hkey, summed,
             calc_summed_merbinner_hash(standalone_left(items, depth),
                                        hkey, summed, depth + 1),
             calc_summed_merbinner_hash(standalone_right(items, depth),
                                        hkey, summed, depth + 1))

calc_summed_merbinner_hash(items, hkey, summed, depth) ==
    IF Len(items) = 0
    THEN Hashed(HMAC(hkey, x(<<0>>)), SUM_IDENTITY)
    ELSE IF Len(items) = 1
    THEN leaf_hash(hkey, items[1][1], items[1][2], items[1][3],
                   sum_serialize_func(summed, items[1][3]))
    ELSE standalone_inner(items, hkey, summed, depth,
                          ErrOf(standalone_sides(items, depth)))

calc_merbinner_hash(items, hkey) ==
    calc_summed_merbinner_hash(
        [n \in 1..Len(items) |-> <<items[n][1], items[n][2], 0>>],
        hkey, FALSE, 0)

-----------------------------------------------------------------------------
(* Reading contexts *)

BytesDeserializationContext(buf) == [err |-> "", buf |-> buf, pos |-> 0]

TooLong == 2 ^ 20

Read(ctx, out) == [ctx |-> ctx, out |-> IF ctx.err # "" THEN <<>> ELSE out]

fail(ctx, e) == IF ctx.err # "" THEN ctx ELSE [ctx EXCEPT !.err = e]

fd_read(ctx, l) ==
    IF ctx.err # "" THEN Read(ctx, <<>>)
    ELSE IF ctx.pos + l > Len(ctx.buf)
    THEN Read([ctx EXCEPT !.err = "AssertionError", !.pos = Len(ctx.buf)], <<>>)
    ELSE Read([ctx EXCEPT !.pos = @ + l], SubSeq(ctx.buf, ctx.pos + 1, ctx.pos + l))

OrUnshifted(value, low, shift) ==
    [k \in 1..(IF Len(value) > 7 THEN Len(value) ELSE 7) |->
        IF (k <= Len(value) /\ value[k] = 1) \/ (low \div (2 ^ (k - 1))) % 2 = 1
        THEN 1 ELSE 0]

OrShl(value, low, shift) ==
    [k \in 1..(IF Len(value) > shift + 7 THEN Len(value) ELSE shift + 7) |->
        IF (k <= Len(value) /\ value[k] = 1)
               \/ (k > shift /\ k <= shift + 7
                       /\ (low \div (2 ^ (k - shift - 1))) % 2 = 1)
        THEN 1 ELSE 0]

RECURSIVE read_varuint_loop(_, _, _)

read_varuint_byte(r, value, shift) ==
    IF r.ctx.err # "" THEN Read(r.ctx, <<>>)
    ELSE IF r.out[1][1] >= 128
    THEN read_varuint_loop(r.ctx, OrShl(value, r.out[1][1] % 128, shift), shift + 7)
    ELSE Read(r.ctx, Normalize(OrShl(value, r.out[1][1] % 128, shift)))

read_varuint_loop(ctx, value, shift) ==
    read_varuint_byte(fd_read(ctx, 1), value, shift)

read_varuint(ctx) == read_varuint_loop(ctx, <<>>, 0)

read_length(n) ==
    fd_read(n.ctx, IF Len(n.out) > 20 THEN TooLong ELSE IntOf(n.out))

read_bytes(ctx, expected_length) ==
    IF expected_length = NoLength
    THEN read_length(read_varuint(ctx))
    ELSE fd_read(ctx, expected_length)

DictSet(cls, items, key, value) ==
    IF cls # "ProofMerbinnerTree" /\ \E n \in 1..Len(items) : items[n][1] = key
    THEN [n \in 1..Len(items) |->
             IF items[n][1] = key THEN <<key, value>> ELSE items[n]]
    ELSE Append(items, <<key, value>>)

Decoded(cls, r, field) ==
    [ctx |-> r.ctx,
     obj |-> IF r.ctx.err # "" THEN Value(cls, <<>>, <<>>, <<>>)
             ELSE IF field = "i" THEN Value(cls, r.out, <<>>, <<>>)
             ELSE IF field = "buf" THEN Value(cls, <<>>, r.out, <<>>)
             ELSE Value(cls, <<>>, <<>>, r.out)]

boxed_ctx_deserialize(cls, ctx) ==
    IF cls = "boxed_varuint"
    THEN Decoded(cls, read_varuint(ctx), "i")
    ELSE Decoded(cls, read_bytes(ctx, EXPECTED_LENGTH(cls)), "buf")

read_obj(ctx, serialization_class) == boxed_ctx_deserialize(serialization_class, ctx)

unbox(r) == Read(r.ctx, r.obj.buf)

key_deserialize(cls, ctx) ==
    CASE cls \in BytesKeyed -> read_bytes(ctx, KEY_LENGTH)
      [] cls = "ProofMerbinnerTree" -> unbox(read_obj(ctx, "boxed_bytes"))
      [] OTHER -> Read(fail(ctx, "TypeError"), <<>>)

value_deserialize(cls, ctx) ==
    CASE cls = "BytesBytesMerbinnerTree" -> read_bytes(ctx, VALUE_LENGTH)
      [] cls = "SummedBytesBytesMerbinnerTree" -> read_bytes(ctx, SUMMED_VALUE_LENGTH)
      [] cls = "ProofMerbinnerTree" -> unbox(read_obj(ctx, "boxed_bytes"))
      [] OTHER -> Read(fail(ctx, "TypeError"), <<>>)

RECURSIVE read_node(_, _, _)

leaf_set(cls, items, k, v) ==
    Read(v.ctx, IF v.ctx.err # "" THEN items ELSE DictSet(cls, items, k.out, v.out))

leaf_value(cls, items, k) == leaf_set(cls, items, k, value_deserialize(cls, k.ctx))

inner_read_right(cls, l) ==
    IF l.ctx.err # "" THEN l ELSE read_node(cls, l.ctx, l.out)

node_of_type(cls, t, items) ==
    IF t.ctx.err # "" THEN [ctx |-> t.ctx, out |-> items]
    ELSE IF t.out = Big(0) THEN [ctx |-> t.ctx, out |-> items]
    ELSE IF t.out = Big(1) THEN leaf_value(cls, items, key_deserialize(cls, t.ctx))
    ELSE IF t.out = Big(2) THEN inner_read_right(cls, read_node(cls, t.ctx, items))
    ELSE [ctx |-> fail(t.ctx, "Exception"), out |-> items]

read_node(cls, ctx, items) == node_of_type(cls, read_varuint(ctx), items)

objs_second(b, n) ==
    [ctx |-> n.ctx,
     obj |-> IF n.ctx.err # "" THEN Value("boxed_objs", <<>>, <<>>, <<>>)
             ELSE boxed_objs(b.obj.buf, n.obj.i)]

objs_first(b) == objs_second(b, read_obj(b.ctx, "boxed_varuint"))

ctx_deserialize(cls, ctx) ==
    CASE cls \in BoxedClasses -> boxed_ctx_deserialize(cls, ctx)
      [] cls = "boxed_objs" -> objs_first(read_obj(ctx, "boxed_bytes"))
      [] cls \in TreeClasses -> Decoded(cls, read_node(cls, ctx, <<>>), "items")
      [] OTHER -> Decoded(cls, Read(fail(ctx, "NotImplementedError"), <<>>), "items")

decode_result(r) == [err |-> r.ctx.err, obj |-> r.obj, pos |-> r.ctx.pos]

deserialize(cls, buf) ==
    decode_result(ctx_deserialize(cls, BytesDeserializationContext(buf)))

-----------------------------------------------------------------------------
(* The proof values the model constructs *)

Pow2(n) == [k \in 1..(n + 1) |-> IF k = n + 1 THEN 1 ELSE 0]

VaruintValues ==
    {Big(n) : n \in 0..MaxVaruint}
        \cup {Big(255), Big(16383), Big(16384), Big(2097151), Big(2097152),
              Big(268435455), Big(268435456), Pow2(32)}

BufBytes == {0, 1, 128, 255}

LongBuf == x([k \in 1..130 |-> 7])

Bufs ==
    {x(bs) : bs \in UNION {[1..n -> BufBytes] : n \in 0..MaxBufLen}} \cup {LongBuf}

Keys == {x(<<255, 255, 255, 255>>), x(<<0, 0, 0, 0>>),
         x(<<128, 0, 0, 0>>), x(<<255, 127, 255, 255>>)}

PlainValues == {x(<<222, 173, 190, 239>>), x(<<202, 254, 186, 190>>)}

SummedValues == {x(<<222, 173, 190, 239, 0, 1>>), x(<<202, 254, 186, 190, 0, 3>>)}

ValuesOf(cls) ==
    IF cls = "SummedBytesBytesMerbinnerTree" THEN SummedValues ELSE PlainValues

DistinctKeys(items) ==
    \A m, n \in 1..Len(items) : m # n => items[m][1] # items[n][1]

ItemSeqs(cls) ==
    {s \in UNION {[1..n -> Keys \X ValuesOf(cls)] : n \in 0..MaxEntries} :
        DistinctKeys(s)}

TreesOf(cls) == {Value(cls, <<>>, <<>>, s) : s \in ItemSeqs(cls)}

Trees == UNION {TreesOf(cls) : cls \in TreeClasses}

ProofValues ==
    {boxed_varuint(i) : i \in VaruintValues}
        \cup {Value(c, <<>>, b, <<>>) : c \in {"boxed_bytes", "our_boxed_bytes"},
                                        b \in Bufs}
        \cup {boxed_objs(b, i) : b \in Bufs,
                                 i \in {Big(0), Big(1), Big(300), Pow2(32)}}
        \cup Trees

-----------------------------------------------------------------------------
(* Serialization, decoding and hashing of one proof value *)

Unset == [err |-> "unset", out |-> <<>>]

UnsetDecoded == [err |-> "unset", obj |-> Value("", <<>>, <<>>, <<>>), pos |-> 0]

UnsetStandalone == Failed("unset")

NoCache == [err |-> "AttributeError", out |-> <<>>]

Threads == 1..NumThreads

IdleThreads ==
    /\ cached = NoCache
    /\ pc = [t \in Threads |-> "idle"]
    /\ local = [t \in Threads |-> Unset]
    /\ ret = [t \in Threads |-> <<>>]
    /\ calcCount = 0
    /\ attrErr = <<>>

NoRegisters ==
    /\ wire = Unset
    /\ decoded = UnsetDecoded
    /\ rewire = Unset
    /\ digest = Unset
    /\ standalone = UnsetStandalone

NoCall == [n |-> 0, op |-> "", name |-> "", value |-> <<>>,
           expected_length |-> NoLength, err |-> ""]

NoContext ==
    /\ writer = BytesSerializationContext
    /\ call = NoCall

NoItems ==
    /\ standaloneItems = <<>>
    /\ maxDepth = 0

callVars == <<writer, call, standaloneItems, maxDepth>>

Init ==
    /\ obj \in ProofValues
    /\ NoRegisters
    /\ IdleThreads
    /\ NoContext
    /\ NoItems

threadVars == <<cached, pc, local, ret, calcCount, attrErr, callVars>>

Serialize ==
    /\ wire = Unset
    /\ wire' = serialize(obj)
    /\ UNCHANGED <<obj, decoded, rewire, digest, standalone, threadVars>>

Deserialize ==
    /\ wire.err = ""
    /\ decoded = UnsetDecoded
    /\ decoded' = deserialize(obj.cls, wire.out)
    /\ UNCHANGED <<obj, wire, rewire, digest, standalone, threadVars>>

Reserialize ==
    /\ decoded.err = ""
    /\ rewire = Unset
    /\ rewire' = serialize(decoded.obj)
    /\ UNCHANGED <<obj, wire, decoded, digest, standalone, threadVars>>

CalcHash ==
    /\ digest = Unset
    /\ digest' = calc_hash(obj)
    /\ UNCHANGED <<obj, wire, decoded, rewire, standalone, threadVars>>

hashed_item(k, v, sum) ==
    IF k.err # "" THEN [err |-> k.err, out |-> <<>>]
    ELSE IF v.err # "" THEN [err |-> v.err, out |-> <<>>]
    ELSE [err |-> "", out |-> <<k.out, v.out, sum>>]

HashItems(cls, items) ==
    [n \in 1..Len(items) |->
        hashed_item(key_gethash(cls, items[n][1]),
                    value_gethash(cls, items[n][2]), items[n][3])]

standalone_over(self, hs, e) ==
    IF e # "" THEN Failed(e)
    ELSE IF self.cls = "SummedBytesBytesMerbinnerTree"
    THEN calc_summed_merbinner_hash([n \in 1..Len(hs) |-> hs[n].out],
                                    HASH_HMAC_KEY(self.cls), TRUE, 0)
    ELSE calc_merbinner_hash([n \in 1..Len(hs) |-> hs[n].out],
                             HASH_HMAC_KEY(self.cls))

StandaloneOf(self) ==
    standalone_over(self, HashItems(self.cls, tree_items(self)),
                    ErrOf(HashItems(self.cls, tree_items(self))))

StandaloneHash ==
    /\ obj.cls \in TreeClasses
    /\ standalone = UnsetStandalone
    /\ standalone' = StandaloneOf(obj)
    /\ UNCHANGED <<obj, wire, decoded, rewire, digest, threadVars>>

Next == Serialize \/ Deserialize \/ Reserialize \/ CalcHash \/ StandaloneHash

Spec == Init /\ [][Next]_vars

-----------------------------------------------------------------------------
(* The hash property and the immutability guard of one shared proof value. *)
(* cached is the _cached_hash attribute (NoCache while it is missing: the  *)
(* lookup raises AttributeError); each thread runs ImmutableProof.hash in  *)
(* steps: the cache lookup, calc_hash, the cache write and the re-read.    *)
(* ret[t] lists the outcomes of the accesses thread t has finished.        *)

K0 == x(<<0, 0, 0, 0>>)

K1 == x(<<255, 255, 255, 255>>)

V0 == x(<<222, 173, 190, 239>>)

S0 == x(<<222, 173, 190, 239, 0, 1>>)

HashValues ==
    {boxed_varuint(Big(0)), boxed_varuint(Pow2(32)),
     boxed_bytes(x(<<0, 255>>)),
     Value("our_boxed_bytes", <<>>, x(<<128>>), <<>>),
     boxed_objs(x(<<255>>), Big(1)),
     Value("BytesBytesMerbinnerTree", <<>>, <<>>, <<>>),
     Value("BytesBytesMerbinnerTree", <<>>, <<>>, << <<K1, V0>>, <<K0, V0>> >>),
     Value("SummedBytesBytesMerbinnerTree", <<>>, <<>>, << <<K1, S0>>, <<K0, S0>> >>),
     Value("ProofMerbinnerTree", <<>>, <<>>, << <<K1, V0>> >>),
     Value("MerbinnerTree", <<>>, <<>>, <<>>),
     Value("MerbinnerTree", <<>>, <<>>, << <<K1, V0>> >>),
     Value("MerbinnerTree", <<>>, <<>>, << <<K1, V0>>, <<K0, V0>> >>)}

InitHash ==
    /\ obj \in HashValues
    /\ NoRegisters
    /\ IdleThreads
    /\ NoContext
    /\ NoItems

registers == <<wire, decoded, rewire, digest, standalone, callVars>>

Lookup(t) ==
    /\ pc[t] = "idle"
    /\ Len(ret[t]) < MaxAccesses
    /\ IF cached.err = ""
       THEN /\ ret' = [ret EXCEPT ![t] = Append(@, cached)]
            /\ UNCHANGED pc
       ELSE /\ pc' = [pc EXCEPT ![t] = "calc"]
            /\ UNCHANGED ret
    /\ UNCHANGED <<obj, registers, cached, local, calcCount, attrErr>>

CalcImpure(t) ==
    /\ pc[t] = "calc"
    /\ local' = [local EXCEPT ![t] = [err |-> calc_hash(obj).err,
                                      out |-> calc_hash(obj).out \o x(<<t>>)]]
    /\ calcCount' = calcCount + 1
    /\ IF local'[t].err # ""
       THEN /\ ret' = [ret EXCEPT ![t] = Append(@, local'[t])]
            /\ pc' = [pc EXCEPT ![t] = "idle"]
       ELSE /\ pc' = [pc EXCEPT ![t] = "store"]
            /\ UNCHANGED ret
    /\ UNCHANGED <<obj, registers, cached, attrErr>>

Calc(t) ==
    /\ pc[t] = "calc"
    /\ local' = [local EXCEPT ![t] = calc_hash(obj)]
    /\ calcCount' = calcCount + 1
    /\ IF local'[t].err # ""
       THEN /\ ret' = [ret EXCEPT ![t] = Append(@, local'[t])]
            /\ pc' = [pc EXCEPT ![t] = "idle"]
       ELSE /\ pc' = [pc EXCEPT ![t] = "store"]
            /\ UNCHANGED ret
    /\ UNCHANGED <<obj, registers, cached, attrErr>>

StoreElsewhere(t) ==
    /\ pc[t] = "store"
    /\ pc' = [pc EXCEPT ![t] = "reread"]
    /\ UNCHANGED <<obj, registers, cached, local, ret, calcCount, attrErr>>

Store(t) ==
    /\ pc[t] = "store"
    /\ cached' = local[t]
    /\ pc' = [pc EXCEPT ![t] = "reread"]
    /\ UNCHANGED <<obj, registers, local, ret, calcCount, attrErr>>

Reread(t) ==
    /\ pc[t] = "reread"
    /\ ret' = [ret EXCEPT ![t] = Append(@, cached)]
    /\ pc' = [pc EXCEPT ![t] = "idle"]
    /\ UNCHANGED <<obj, registers, cached, local, calcCount, attrErr>>

AttrNames == {"i", "buf", "items", "_cached_hash", "other"}

AttrValues(name) ==
    CASE name = "i" -> {Big(7)}
      [] name = "buf" -> {x(<<1>>)}
      [] name = "items" -> {<<>>}
      [] OTHER -> {[err |-> "", out |-> x(<<9>>)]}

setattr_stores(self, cache, name, value) ==
    [err |-> "",
     obj |-> IF name \in {"i", "buf", "items"} THEN [self EXCEPT ![name] = value]
             ELSE self,
     cached |-> IF name = "_cached_hash" THEN value ELSE cache]

setattr(self, cache, name, value) ==
    [err |-> "AttributeError", obj |-> self, cached |-> cache]

delattr(self, cache, name) ==
    [err |-> "AttributeError", obj |-> self, cached |-> cache]

Attempted(op, r) ==
    /\ attrErr' = Append(attrErr, <<op, r.err>>)
    /\ obj' = r.obj
    /\ cached' = r.cached
    /\ UNCHANGED <<registers, pc, local, ret, calcCount>>

SetAttr ==
    /\ Len(attrErr) < MaxAttempts
    /\ \E name \in AttrNames : \E value \in AttrValues(name) :
           Attempted("set", setattr(obj, cached, name, value))

DelAttr ==
    /\ Len(attrErr) < MaxAttempts
    /\ \E name \in AttrNames : Attempted("del", delattr(obj, cached, name))

NextHash ==
    \/ \E t \in Threads : Lookup(t) \/ Calc(t) \/ Store(t) \/ Reread(t)
    \/ SetAttr
    \/ DelAttr

SpecHash == InitHash /\ [][NextHash]_vars

(* Accesses one after another: an access starts only when no other is running. *)

SeqLookup(t) ==
    /\ \A u \in Threads : pc[u] = "idle"
    /\ Lookup(t)

NextSeq == \E t \in Threads : SeqLookup(t) \/ Calc(t) \/ Store(t) \/ Reread(t)

SpecSeq == InitHash /\ [][NextSeq]_vars

-----------------------------------------------------------------------------
(* Properties *)

Unsummed == {"BytesBytesMerbinnerTree", "ProofMerbinnerTree"}

Configured == {"BytesBytesMerbinnerTree", "SummedBytesBytesMerbinnerTree",
               "ProofMerbinnerTree"}

(* C1: for entries with pairwise distinct keys, the hash of the tree       *)
(* object equals calc_merbinner_hash over the pairs (key_gethash(key),     *)
(* value_gethash(value)) under the same keyed hash.                        *)
C1_TreeHashIsStandaloneHash ==
    (/\ obj.cls \in Unsummed
     /\ digest # Unset
     /\ standalone # UnsetStandalone)
        => /\ digest.err = ""
           /\ standalone.err = ""
           /\ digest.out = standalone.hash

(* C2: under the hashing codec the leaf of a summed tree is hashed with    *)
(* its serialized sum after the key and the value, so a single-entry       *)
(* tree's digest is the standalone leaf digest H(01 key value sum); the    *)
(* plain encoding carries no sum.                                          *)
C2_SummedLeafCarriesSum ==
    (/\ obj.cls = "SummedBytesBytesMerbinnerTree"
     /\ Len(obj.items) = 1
     /\ digest # Unset
     /\ standalone # UnsetStandalone
     /\ wire # Unset)
        => /\ digest.err = ""
           /\ digest.out[1][3] =
                  x(<<1>>) \o obj.items[1][1] \o obj.items[1][2]
                      \o sum_pack(value_getsum(obj.cls, obj.items[1][2])).out
           /\ digest.out = standalone.hash
           /\ wire.out = x(<<1>>) \o obj.items[1][1] \o obj.items[1][2]

RoutingDepths == 0..8

KeyHashBit(cls, key, depth) ==
    BitOf(ByteAt(key_gethash(cls, key).out, depth \div 8), depth)

(* C3: an inner node at depth d sends an entry left iff bit (7 - d mod 8)  *)
(* of byte (d div 8) of key_gethash(key) is 1 and right iff it is 0, in    *)
(* the tree-object encoder as in the standalone algorithm.                 *)
C3_RoutesByKeyHashBit ==
    (/\ obj.cls \in Configured
     /\ Len(obj.items) >= 2
     /\ wire # Unset)
        => \A depth \in RoutingDepths : \A n \in 1..Len(obj.items) :
              /\ tree_side(obj.cls, obj.items[n][1], depth)
                     = [err |-> "",
                        out |-> KeyHashBit(obj.cls, obj.items[n][1], depth)]
              /\ standalone_side(key_gethash(obj.cls, obj.items[n][1]).out, depth)
                     = [err |-> "",
                        out |-> KeyHashBit(obj.cls, obj.items[n][1], depth)]

SameMapping(a, b) ==
    /\ Len(a) = Len(b)
    /\ {a[n] : n \in 1..Len(a)} = {b[n] : n \in 1..Len(b)}

SameFields(a, b) ==
    /\ a.cls = b.cls
    /\ a.i = b.i
    /\ a.buf = b.buf
    /\ SameMapping(a.items, b.items)

(* C4: deserialize(serialize(x)) has the fields of x (the same key-value   *)
(* mapping for a tree), and serializing the decoded value again yields     *)
(* exactly serialize(x).                                                   *)
C4_RoundTrip ==
    (/\ wire # Unset
     /\ wire.err = "")
        => /\ decoded # UnsetDecoded =>
                  /\ decoded.err = ""
                  /\ SameFields(decoded.obj, obj)
           /\ rewire # Unset => rewire = wire

C4_Witness ==
    /\ obj.cls = "SummedBytesBytesMerbinnerTree"
    /\ Len(obj.items) = 3
    /\ decoded.err = ""
    /\ decoded.obj.items # obj.items
    /\ rewire.err = ""
    /\ rewire = wire

ExpectedLen(value) ==
    IF bit_length(value) = 0 THEN 1 ELSE (bit_length(value) + 6) \div 7

(* C5: write_varuint emits max(1, ceil(bit_length(n) / 7)) bytes, every    *)
(* byte but the last with the high bit set and the last with it clear, and *)
(* read_varuint consumes all of them and returns n; 0 is 00, 1 is 01 and   *)
(* 2^32 is 80 80 80 80 10.                                                 *)
C5_Varuint ==
    (/\ obj.cls = "boxed_varuint"
     /\ wire # Unset)
        => /\ wire.err = ""
           /\ Len(wire.out) = ExpectedLen(obj.i)
           /\ \A n \in 1..Len(wire.out) :
                  /\ wire.out[n][1] \in 0..255
                  /\ (wire.out[n][1] >= 128) <=> (n < Len(wire.out))
           /\ obj.i = Big(0) => wire.out = x(<<0>>)
           /\ obj.i = Big(1) => wire.out = x(<<1>>)
           /\ obj.i = Pow2(32) => wire.out = x(<<128, 128, 128, 128, 16>>)
           /\ decoded # UnsetDecoded =>
                  /\ decoded.err = ""
                  /\ decoded.obj.i = obj.i
                  /\ decoded.pos = Len(wire.out)

C5_Witness ==
    /\ obj = boxed_varuint(Pow2(32))
    /\ wire.out = x(<<128, 128, 128, 128, 16>>)
    /\ decoded.err = ""
    /\ decoded.obj.i = Pow2(32)
    /\ decoded.pos = 5

Nested == {Value(c, <<>>, b, <<>>) : c \in {"boxed_bytes", "our_boxed_bytes"},
                                     b \in Bufs}

OuterHash(v, w) ==
    hmac_digest(HASH_HMAC_KEY("boxed_objs"),
                write_obj(write_obj(HashSerializationContext, v), w))

(* C9: under the hashing codec write_obj appends exactly the nested        *)
(* value's 32-byte hash, never its encoding: replacing a nested value by   *)
(* one with another hash changes the outer hash, and by one with the same  *)
(* hash leaves it unchanged.                                               *)
C9_MerkleSubstitution ==
    (/\ obj.cls = "boxed_objs"
     /\ digest # Unset)
        => /\ digest.err = ""
           /\ digest.out[1][3] = boxed_calc_hash(boxed_bytes(obj.buf)).out
                                     \o boxed_calc_hash(boxed_varuint(obj.i)).out
           /\ ByteLen(digest.out[1][3]) = 2 * DIGEST_SIZE
           /\ \A v \in Nested :
                  boxed_calc_hash(v).err = "" =>
                      ((OuterHash(v, boxed_varuint(obj.i)) = digest)
                          <=> (boxed_calc_hash(v)
                                   = boxed_calc_hash(boxed_bytes(obj.buf))))

C9_Witness ==
    /\ obj.cls = "boxed_objs"
    /\ digest.err = ""
    /\ \E v \in Nested :
           /\ v.cls = "our_boxed_bytes"
           /\ boxed_calc_hash(v) = boxed_calc_hash(boxed_bytes(obj.buf))
    /\ \E v \in Nested :
           /\ boxed_calc_hash(v).err = ""
           /\ OuterHash(v, boxed_varuint(obj.i)) # digest

(* C6: every attempt to set or delete an attribute of a constructed proof  *)
(* value fails with AttributeError and leaves its fields, its cached hash, *)
(* its serialization and its hash unchanged, for any name and any number   *)
(* of attempts.                                                            *)
C6_Immutable ==
    [][Len(attrErr') > Len(attrErr) =>
          /\ attrErr'[Len(attrErr')][2] = "AttributeError"
          /\ obj' = obj
          /\ cached' = cached
          /\ serialize(obj') = serialize(obj)
          /\ calc_hash(obj') = calc_hash(obj)]_vars

C6_Witness ==
    /\ Len(attrErr) >= 2
    /\ attrErr[1] = <<"set", "AttributeError">>
    /\ attrErr[2] = <<"del", "AttributeError">>
    /\ cached.err = ""
    /\ obj \in HashValues

Finished == {<<t, n>> \in Threads \X (1..MaxAccesses) : n <= Len(ret[t])}

Keyless == HASH_HMAC_KEY(obj.cls) = None

-----------------------------------------------------------------------------
(* Field writes made directly on one serialization context of each        *)
(* backend: a stream context over the caller's file, a bytes context, a    *)
(* hashing context and the JSON context, whose pairs are kept in insertion *)
(* order.  An exception leaves the context to its caller, who may go on.   *)

MaxCalls == 2

StreamSerializationContext(fd) == [kind |-> "stream", err |-> "", fd |-> fd]

JsonSerializationContext == [kind |-> "json", err |-> "", pairs |-> <<>>]

HexDigits == <<"0", "1", "2", "3", "4", "5", "6", "7",
               "8", "9", "a", "b", "c", "d", "e", "f">>

hexlify(value) ==
    [k \in 1..(2 * Len(value)) |->
        IF k % 2 = 1
        THEN HexDigits[(value[(k + 1) \div 2][1] \div 16) + 1]
        ELSE HexDigits[(value[k \div 2][1] % 16) + 1]]

HasPair(c, attr_name) == \E n \in 1..Len(c.pairs) : c.pairs[n][1] = attr_name

json_store(c, attr_name, value) ==
    IF HasPair(c, attr_name)
    THEN [c EXCEPT !.err = "AssertionError"]
    ELSE [c EXCEPT !.pairs = Append(@, <<attr_name, value>>)]

json_write_varuint(c, attr_name, value) == json_store(c, attr_name, value)

json_write_bytes(c, attr_name, value, expected_length) ==
    json_store(c, attr_name, hexlify(value))

WriterInit ==
    {StreamSerializationContext(x(<<>>)), StreamSerializationContext(x(<<7>>)),
     BytesSerializationContext, HashSerializationContext,
     JsonSerializationContext}

WriteNames == {"buf", "key"}

WriteValues == {x(<<>>), x(<<7>>), x(<<222, 173>>)}

ExpectedLengths == {NoLength} \cup 0..MaxBufLen

InitWrite ==
    /\ obj = boxed_bytes(<<>>)
    /\ NoRegisters
    /\ IdleThreads
    /\ NoItems
    /\ writer \in WriterInit
    /\ call = NoCall

Called(op, attr_name, value, expected_length, r) ==
    /\ call' = [n |-> call.n + 1, op |-> op, name |-> attr_name, value |-> value,
                expected_length |-> expected_length, err |-> r.err]
    /\ writer' = [r EXCEPT !.err = ""]
    /\ UNCHANGED <<obj, wire, decoded, rewire, digest, standalone,
                   cached, pc, local, ret, calcCount, attrErr,
                   standaloneItems, maxDepth>>

WriteVaruint ==
    /\ call.n < MaxCalls
    /\ \E attr_name \in WriteNames : \E value \in {Big(0), Big(300)} :
           Called("write_varuint", attr_name, value, NoLength,
                  IF writer.kind = "json"
                  THEN json_write_varuint(writer, attr_name, value)
                  ELSE write_varuint(writer, value))

WriteBytes ==
    /\ call.n < MaxCalls
    /\ \E attr_name \in WriteNames : \E value \in WriteValues :
         \E expected_length \in ExpectedLengths :
           Called("write_bytes", attr_name, value, expected_length,
                  IF writer.kind = "json"
                  THEN json_write_bytes(writer, attr_name, value, expected_length)
                  ELSE write_bytes(writer, value, expected_length))

NextWrite == WriteVaruint \/ WriteBytes

SpecWrite == InitWrite /\ [][NextWrite]_vars

(* C11: in each of the four writing backends, writing a bytes field whose  *)
(* length differs from the given expected_length fails with an error, and  *)
(* the failed write adds nothing to the backend's output.                  *)
C11_LengthMismatchFails ==
    [][(/\ call'.n > call.n
        /\ call'.op = "write_bytes"
        /\ call'.expected_length # NoLength
        /\ ByteLen(call'.value) # call'.expected_length)
          => /\ call'.err # ""
             /\ writer' = writer]_vars

(***************************************************************************)
(* Calls of the standalone merbinner hash functions on item lists.         *)
(***************************************************************************)

hash_func_key == HASH_HMAC_KEY("SummedBytesBytesMerbinnerTree")

ItemUniverse ==
    {<<x(<<0>>), x(<<1>>), 1>>, <<x(<<128>>), x(<<1>>), 3>>,
     <<x(<<129>>), x(<<2>>), 1>>, <<x(<<128>>), x(<<2>>), 1>>,
     <<x(<<128, 0>>), x(<<1>>), 3>>, <<x(<<128, 1>>), x(<<2>>), 1>>}

ItemLists ==
    UNION {[1..n -> ItemUniverse] : n \in 0..MaxEntries}

Max(a, b) == IF a >= b THEN a ELSE b

RECURSIVE recursion_depth(_, _, _, _)

recursion_depth_right(lerr, dl, right, hkey, summed, depth) ==
    IF lerr # "" THEN dl
    ELSE Max(dl, recursion_depth(right, hkey, summed, depth + 1))

recursion_depth_inner(items, hkey, summed, depth, e) ==
    IF e # "" THEN depth
    ELSE recursion_depth_right(
             calc_summed_merbinner_hash(standalone_left(items, depth),
                                        hkey, summed, depth + 1).err,
             recursion_depth(standalone_left(items, depth),
                             hkey, summed, depth + 1),
             standalone_right(items, depth), hkey, summed, depth)

recursion_depth(items, hkey, summed, depth) ==
    IF Len(items) <= 1 THEN depth
    ELSE recursion_depth_inner(items, hkey, summed, depth,
                               ErrOf(standalone_sides(items, depth)))

InitStandalone ==
    /\ obj = boxed_bytes(<<>>)
    /\ NoRegisters
    /\ IdleThreads
    /\ NoContext
    /\ standaloneItems \in ItemLists
    /\ maxDepth = 0

Applied(op, r, d) ==
    /\ call.n = 0
    /\ call' = [call EXCEPT !.n = 1, !.op = op, !.err = r.err]
    /\ standalone' = r
    /\ maxDepth' = d
    /\ UNCHANGED <<obj, wire, decoded, rewire, digest, cached, pc, local, ret,
                   calcCount, attrErr, writer, standaloneItems>>

CalcSummedMerbinnerHash ==
    Applied("calc_summed_merbinner_hash",
            calc_summed_merbinner_hash(standaloneItems, hash_func_key, TRUE, 0),
            recursion_depth(standaloneItems, hash_func_key, TRUE, 0))

CalcMerbinnerHash ==
    Applied("calc_merbinner_hash",
            calc_merbinner_hash(standaloneItems, hash_func_key),
            recursion_depth(standaloneItems, hash_func_key, FALSE, 0))

NextStandalone == CalcSummedMerbinnerHash \/ CalcMerbinnerHash

SpecStandalone == InitStandalone /\ [][NextStandalone]_vars

DistinctKeyHashes(items) ==
    \A m, n \in 1..Len(items) : m # n => items[m][1] # items[n][1]

Orderings(n) ==
    {p \in [1..n -> 1..n] : \A i, j \in 1..n : i # j => p[i] # p[j]}

Reordered(items, p) == [n \in 1..Len(items) |-> items[p[n]]]

RECURSIVE SumOf(_)

SumOf(items) ==
    IF Len(items) = 0 THEN SUM_IDENTITY
    ELSE sum_func(items[1][3], SumOf(Tail(items)))

(* C12: over items with pairwise distinct key hashes,                      *)
(* calc_summed_merbinner_hash gives the same outcome for every ordering of *)
(* the items, and a returned sum is the sum_func-combination of all the    *)
(* items' sums (the empty sum when there are none).                        *)
C12_OrderIndependent ==
    (/\ call.op = "calc_summed_merbinner_hash"
     /\ DistinctKeyHashes(standaloneItems))
      => /\ \A p \in Orderings(Len(standaloneItems)) :
                calc_summed_merbinner_hash(Reordered(standaloneItems, p),
                                           hash_func_key, TRUE, 0) = standalone
         /\ standalone.err = "" => standalone.sum = SumOf(standaloneItems)

C12_Witness ==
    /\ call.op = "calc_summed_merbinner_hash"
    /\ Len(standaloneItems) = 3
    /\ DistinctKeyHashes(standaloneItems)
    /\ standaloneItems[1][1] = x(<<129>>)
    /\ standaloneItems[2][1] = x(<<0>>)
    /\ standaloneItems[3][1] = x(<<128>>)
    /\ standalone.err = ""
    /\ standalone.sum = 5

SameLength(items) ==
    \A n \in 1..Len(items) : ByteLen(items[n][1]) = ByteLen(items[1][1])

KeyHashLength(items) == IF Len(items) = 0 THEN 0 ELSE ByteLen(items[1][1])

(* C14: calc_summed_merbinner_hash on key hashes of one length L: with     *)
(* pairwise distinct key hashes the recursion never goes deeper than 8*L   *)
(* and a (hash, sum) is returned; with a repeated key hash the call fails  *)
(* with an IndexError at depth 8*L and returns nothing.                    *)
C14_DepthBoundedByKeyBits ==
    (/\ call.op = "calc_summed_merbinner_hash"
     /\ SameLength(standaloneItems))
      => IF DistinctKeyHashes(standaloneItems)
         THEN /\ standalone.err = ""
              /\ maxDepth <= 8 * KeyHashLength(standaloneItems)
         ELSE /\ standalone.err = "IndexError"
              /\ maxDepth = 8 * KeyHashLength(standaloneItems)

C14_Witness ==
    /\ call.op = "calc_summed_merbinner_hash"
    /\ Len(standaloneItems) = 3
    /\ SameLength(standaloneItems)
    /\ KeyHashLength(standaloneItems) = 2
    /\ ~DistinctKeyHashes(standaloneItems)
    /\ standaloneItems[1][1] # standaloneItems[2][1]
    /\ standalone.err = "IndexError"
    /\ maxDepth = 16

(***************************************************************************)
(* A merbinner tree is a dict: hash accesses, attribute writes and the     *)
(* mapping operations of dict on one tree object.                          *)
(***************************************************************************)

DictClasses == {"BytesBytesMerbinnerTree", "SummedBytesBytesMerbinnerTree"}

K2 == x(<<128, 0, 0, 0>>)

V1 == x(<<202, 254, 186, 190>>)

S1 == x(<<202, 254, 186, 190, 0, 3>>)

ItemKeys == {K0, K2}

ItemValues(cls) == IF cls = "SummedBytesBytesMerbinnerTree" THEN {S1} ELSE {V1}

HasKey(self, key) == \E n \in 1..Len(self.items) : self.items[n][1] = key

Without(items, key) ==
    LET RECURSIVE without(_)
        without(n) == IF n > Len(items) THEN <<>>
                      ELSE (IF items[n][1] = key THEN <<>> ELSE <<items[n]>>)
                               \o without(n + 1)
    IN without(1)

setitem(self, cache, key, value) ==
    [err |-> "",
     obj |-> [self EXCEPT !.items = DictSet(self.cls, @, key, value)],
     cached |-> cache]

delitem(self, cache, key) ==
    IF HasKey(self, key)
    THEN [err |-> "",
          obj |-> [self EXCEPT !.items = Without(@, key)],
          cached |-> cache]
    ELSE [err |-> "KeyError", obj |-> self, cached |-> cache]

InitTree ==
    /\ obj \in {v \in HashValues : v.cls \in DictClasses}
    /\ NoRegisters
    /\ IdleThreads
    /\ NoContext
    /\ NoItems

SetItem ==
    /\ Len(attrErr) < MaxAttempts
    /\ \E key \in ItemKeys : \E value \in ItemValues(obj.cls) :
           Attempted("setitem", setitem(obj, cached, key, value))

DelItem ==
    /\ Len(attrErr) < MaxAttempts
    /\ \E key \in ItemKeys : Attempted("delitem", delitem(obj, cached, key))

NextTree ==
    \/ \E t \in Threads : SeqLookup(t) \/ Calc(t) \/ Store(t) \/ Reread(t)
    \/ SetAttr
    \/ DelAttr
    \/ SetItem
    \/ DelItem

SpecTree == InitTree /\ [][NextTree]_vars

(* C13: whatever operations are applied to a merbinner tree (hash          *)
(* accesses, attribute writes, item assignment and deletion), the hash it  *)
(* has cached, which is what its hash returns, is calc_hash of its current *)
(* key-value mapping.                                                      *)
C13_CachedHashNeverStale ==
    (obj.cls \in DictClasses /\ cached.err = "") => cached = calc_hash(obj)

(***************************************************************************)
(* Decoding of received bytes as a merbinner tree, and serializing the     *)
(* decoded tree again.                                                     *)
(***************************************************************************)

EmptyNode == x(<<0>>)

LeafNode(key, value) == x(<<1>>) \o key \o value

InnerNode(left, right) == x(<<2>>) \o left \o right

InnerNodes(nodes) == {InnerNode(l, r) : l \in nodes, r \in nodes}

Leaves == {EmptyNode, x(<<3>>), x(<<128, 0>>), LeafNode(K1, V0), LeafNode(K0, V1)}

Subtrees == Leaves \cup InnerNodes({EmptyNode, LeafNode(K1, V0), LeafNode(K0, V1)})

Roots == Subtrees \cup InnerNodes(Subtrees)

Truncated == {x(<<>>), x(<<1>>) \o K1, x(<<2, 0>>), x(<<2>>) \o LeafNode(K1, V0)}

Received == Roots \cup {b \o x(<<0>>) : b \in Roots} \cup Truncated

InitDecode ==
    /\ obj = Value("BytesBytesMerbinnerTree", <<>>, <<>>, <<>>)
    /\ wire \in {[err |-> "", out |-> b] : b \in Received}
    /\ decoded = UnsetDecoded
    /\ rewire = Unset
    /\ digest = Unset
    /\ standalone = UnsetStandalone
    /\ IdleThreads
    /\ NoContext
    /\ NoItems

NextDecode == Deserialize \/ Reserialize

SpecDecode == InitDecode /\ [][NextDecode]_vars

(* C15: tree decoding accepts only canonical encodings: whenever           *)
(* deserialize succeeds on received bytes, serializing the decoded tree    *)
(* gives exactly those bytes again.                                        *)
C15_AcceptsOnlyCanonical ==
    (/\ obj.cls \in TreeClasses
     /\ decoded.err = ""
     /\ rewire # Unset)
      => /\ rewire.err = ""
         /\ rewire.out = wire.out

====
